---------------------------- MODULE Spec2Model ----------------------------
(***************************************************************************)
(* Model of make_carrington.py: the mid-line extractor for SDO/HMI         *)
(* magnetograms.  sel_mid_line builds two paths from a datetime, loads a   *)
(* tensor, takes column 512, creates the destination directory and saves   *)
(* the column; main enumerates hourly datetimes and runs sel_mid_line for  *)
(* each on a ThreadPoolExecutor, draining the futures with as_completed.   *)
(*                                                                         *)
(* A str is kept as the sequence of its pieces: every "/" is a piece of    *)
(* its own and the text between two slashes is one piece, so that           *)
(* os.path.join and os.path.dirname can look at the slashes; Cat is         *)
(* concatenation and Str the TLA+ string with the same characters.  A       *)
(* datetime is the number of seconds since 2010-01-01T00:00:00 and a        *)
(* timedelta a number of seconds, so that datetime arithmetic is integer    *)
(* arithmetic and strftime is a real conversion to calendar fields.         *)
(***************************************************************************)
EXTENDS Integers, Sequences, FiniteSets, TLC

VARIABLES
    input_dir,      \* args.input_dir
    output_dir,     \* args.output_dir
    num_cpus,       \* args.num_cpus
    data_list,      \* main: the list of datetimes
    dirs,           \* filesystem: the set of existing directories
    files,          \* filesystem: path -> stored content
    main_pc,        \* main: "submit" | "collect" | "done"
    submitted,      \* main: how many tasks were handed to executor.submit
    queue,          \* executor: work items not yet picked up by a thread
    thread,         \* executor: thread -> index of the task it runs, 0 idle
    pc,             \* per task: position inside sel_mid_line
    data_path,      \* per task: local data_path
    output_path,    \* per task: local output_path
    data,           \* per task: local data (the loaded tensor)
    mid_line_data,  \* per task: local mid_line_data
    head_seen,      \* per task: os.makedirs' answer to exists(head)
    future,         \* per task: the Future's state and result
    received,       \* per task: what main's loop got from future.result()
    log,            \* per task: the lines printed about that task, in order
    steps,          \* per task: the steps of sel_mid_line taken, in order
    writers,        \* path -> the tasks that called torch.save on it, in order
    pathProbe,      \* a single path construction, for any roots and datetime
    enumProbe       \* a single enumeration, for any start, end and step

runVars == <<input_dir, output_dir, num_cpus, data_list, dirs, files, main_pc,
             submitted, queue, thread, pc, data_path, output_path, data,
             mid_line_data, head_seen, future, received, log, steps, writers>>
vars == <<runVars, pathProbe, enumProbe>>

----------------------------------------------------------------------------
(* Bounds of the model *)

\* the modelled run covers MaxHours hours from start_date
MaxHours == 3
\* args.num_cpus ranges over 1..MaxCpus
MaxCpus == 2
\* rows of a stored tensor range over 1..MaxRows
MaxRows == 2
\* the enumeration probe draws start and end from 0..MaxT
MaxT == 6
\* the enumeration probe draws the step from 1..MaxDelta
MaxDelta == 3

----------------------------------------------------------------------------
(* str *)

RECURSIVE Str(_)
\* the characters of s as one TLA+ string
Str(s) == IF s = <<>> THEN "" ELSE Head(s) \o Str(Tail(s))

\* a + b for two str: the text that ends a and the text that starts b
\* become one piece
Cat(a, b) ==
    IF a = <<>> THEN b
    ELSE IF b = <<>> THEN a
    ELSE IF a[Len(a)] # "/" /\ b[1] # "/"
    THEN SubSeq(a, 1, Len(a) - 1) \o <<a[Len(a)] \o b[1]>> \o Tail(b)
    ELSE a \o b

Digit(n) == <<"0", "1", "2", "3", "4", "5", "6", "7", "8", "9">>[n + 1]
\* %m %d %H %M %S: two digits, zero padded
Pad2(n) == Digit((n \div 10) % 10) \o Digit(n % 10)
\* %Y: four digits
Pad4(n) == Digit((n \div 1000) % 10) \o Digit((n \div 100) % 10) \o Pad2(n % 100)

Slash == <<"/">>

----------------------------------------------------------------------------
(* datetime and timedelta *)

IsLeap(y) == (y % 4 = 0 /\ y % 100 # 0) \/ y % 400 = 0
DaysInYear(y) == IF IsLeap(y) THEN 366 ELSE 365
DaysInMonth(y, m) ==
    IF m = 2 THEN (IF IsLeap(y) THEN 29 ELSE 28)
    ELSE IF m \in {4, 6, 9, 11} THEN 30 ELSE 31

RECURSIVE DaysBeforeYear(_)
DaysBeforeYear(y) ==
    IF y <= 2010 THEN 0 ELSE DaysBeforeYear(y - 1) + DaysInYear(y - 1)

RECURSIVE DaysBeforeMonth(_, _)
DaysBeforeMonth(y, m) ==
    IF m <= 1 THEN 0 ELSE DaysBeforeMonth(y, m - 1) + DaysInMonth(y, m - 1)

\* datetime(y, mo, d, h, mi, s)
Datetime(y, mo, d, h, mi, s) ==
    (DaysBeforeYear(y) + DaysBeforeMonth(y, mo) + (d - 1)) * 86400
        + h * 3600 + mi * 60 + s

\* timedelta(hours=h)
Timedelta(h) == h * 3600

RECURSIVE YearOf(_, _)
\* the year holding day number n counted from 1 January of year y, and the
\* day within it
YearOf(y, n) ==
    IF n >= DaysInYear(y) THEN YearOf(y + 1, n - DaysInYear(y))
    ELSE [year |-> y, yday |-> n]

RECURSIVE MonthOf(_, _, _)
MonthOf(y, m, n) ==
    IF n >= DaysInMonth(y, m) THEN MonthOf(y, m + 1, n - DaysInMonth(y, m))
    ELSE [month |-> m, day |-> n + 1]

\* the calendar fields of a datetime; the year and the month are worked out
\* once each
Fields(dt) ==
    CHOOSE f \in
        {[year |-> c.yd.year, month |-> c.md.month, day |-> c.md.day,
          hour |-> c.r \div 3600, minute |-> (c.r % 3600) \div 60,
          second |-> c.r % 60] :
            c \in {[yd |-> yd, md |-> MonthOf(yd.year, 1, yd.yday),
                    r |-> dt % 86400] :
                        yd \in {YearOf(2010, dt \div 86400)}}} : TRUE

\* '/%Y/%m/%d/hmi.M_720s.%Y%m%d_' of calendar fields f
FormatDate(f) ==
    <<"/", Pad4(f.year), "/", Pad2(f.month), "/", Pad2(f.day), "/",
      "hmi.M_720s." \o Pad4(f.year) \o Pad2(f.month) \o Pad2(f.day) \o "_">>

\* '%H%M%S' of calendar fields f
FormatTime(f) == <<Pad2(f.hour) \o Pad2(f.minute) \o Pad2(f.second)>>

\* the variant of Strftime that forgets %H%M%S
Strftime_nohour(dt) ==
    CHOOSE s \in {FormatDate(f) : f \in {Fields(dt)}} : TRUE

\* date_time.strftime('/%Y/%m/%d/hmi.M_720s.%Y%m%d_%H%M%S'); the fields of
\* dt are taken once
Strftime(dt) ==
    CHOOSE s \in {Cat(FormatDate(f), FormatTime(f)) : f \in {Fields(dt)}} : TRUE

----------------------------------------------------------------------------
(* os.path *)

\* os.path.join(a, b): an absolute b discards a
Join(a, b) ==
    IF b # <<>> /\ Head(b) = "/" THEN b
    ELSE IF a = <<>> \/ a[Len(a)] = "/" THEN Cat(a, b)
    ELSE Cat(a \o Slash, b)

\* the index of the last "/" of p, 0 when there is none
LastSlash(p) ==
    LET S == {i \in 1..Len(p) : p[i] = "/"}
    IN  IF S = {} THEN 0 ELSE CHOOSE i \in S : \A j \in S : j <= i

RECURSIVE RStripSlash(_)
RStripSlash(p) ==
    IF p # <<>> /\ p[Len(p)] = "/" THEN RStripSlash(SubSeq(p, 1, Len(p) - 1))
    ELSE p

\* os.path.dirname(p): up to the last "/", trailing slashes stripped unless
\* the head is all slashes
Dirname(p) ==
    LET h == SubSeq(p, 1, LastSlash(p))
    IN  IF RStripSlash(h) = <<>> THEN h ELSE RStripSlash(h)

\* relevant_path = f"{date_time.strftime(...)}<suffix>", line 40
RelevantPath(dt, suffix) ==
    CHOOSE r \in {Cat(s, suffix) : s \in {Strftime(dt)}} : TRUE

\* sel_mid_line, lines 40-41
DataPath(in_dir, dt) ==
    CHOOSE p \in {Join(in_dir, r) : r \in {RelevantPath(dt, <<"_TAI.pt">>)}} : TRUE
\* sel_mid_line, line 42
OutputPath(out_dir, dt) ==
    CHOOSE p \in {Join(out_dir, r) : r \in {RelevantPath(dt, <<"_midline.pt">>)}} : TRUE

----------------------------------------------------------------------------
(* main: the time range *)

start_date == Datetime(2010, 5, 1, 0, 0, 0)
\* the run ends MaxHours hours after start_date (the program: 2024-05-01)
end_date == start_date + MaxHours * 3600
delta == Timedelta(1)

\* int(a / b) for timedeltas: true division, truncated towards zero
IntDiv(a, b) == IF a >= 0 THEN a \div b ELSE -((-a) \div b)

\* the variant of DataList that runs one step too far
DataList_offbyone(start, end, step) ==
    LET n == IntDiv(end - start, step) + 1
    IN  [i \in 1..(IF n > 0 THEN n ELSE 0) |-> start + (i - 1) * step]

\* [start + i * delta for i in range(int((end - start) / delta))]
DataList(start, end, step) ==
    LET n == IntDiv(end - start, step)
    IN  [i \in 1..(IF n > 0 THEN n ELSE 0) |-> start + (i - 1) * step]

----------------------------------------------------------------------------
(* values *)

NoneV == [t |-> "None"]
StrV(s) == [t |-> "str", v |-> s]
\* bool(x) of an Optional[str]
Truthy(x) == x.t = "str" /\ x.v # <<>>

\* what main has before future.result() returned
NotYet == [t |-> "notyet"]

----------------------------------------------------------------------------
(* tensors and the files that hold them *)

\* the column sel_mid_line selects
MidIndex == 512

\* the element at (r, c) of the stored magnetogram with filling f
Fill(f, r, c) ==
    IF f = "A" THEN (r + 2 * c) % 5
    ELSE IF c = 512 THEN r + 1 ELSE 0

\* a 2-D tensor of a given shape, kept by its filling: its element at (r, c)
\* is At2(x, r, c), indices from 0
Tensor2(rows, cols, f) == [t |-> "tensor", shape |-> <<rows, cols>>, fill |-> f]
At2(x, r, c) == Fill(x.fill, r, c)

\* a 1-D tensor holding v[0], ..., v[n - 1]
Tensor1(n, v) == [t |-> "tensor", shape |-> <<n>>, at |-> v]

\* a file that torch.load cannot unpickle
Corrupt == [t |-> "corrupt"]
\* no file at all
Missing == [t |-> "missing"]

\* what may lie at the data_path of the i-th datetime before the run
Inputs(i) ==
    {Missing, Corrupt, Tensor2(MaxRows, 512, "A"),
     IF i % 2 = 1 THEN Tensor2(MaxRows, 513, "A") ELSE Tensor2(MaxRows, 514, "B")}

\* torch.load(path) on filesystem content fs
TorchLoad(fs, path) ==
    IF path \notin DOMAIN fs THEN [exc |-> "FileNotFoundError", value |-> NoneV]
    ELSE IF fs[path].t # "tensor" THEN [exc |-> "UnpicklingError", value |-> NoneV]
    ELSE [exc |-> "", value |-> fs[path]]

\* the variant of SelectColumn that takes the column before the middle
SelectColumn_left(x, k) ==
    IF Len(x.shape) < 2 \/ k - 1 >= x.shape[2]
    THEN [exc |-> "IndexError", value |-> NoneV]
    ELSE [exc |-> "",
          value |-> Tensor1(x.shape[1],
                            [r \in 0..(x.shape[1] - 1) |-> At2(x, r, k - 1)])]

\* x[:, k] for k >= 0
SelectColumn(x, k) ==
    IF Len(x.shape) < 2 \/ k >= x.shape[2]
    THEN [exc |-> "IndexError", value |-> NoneV]
    ELSE [exc |-> "",
          value |-> Tensor1(x.shape[1],
                            [r \in 0..(x.shape[1] - 1) |-> At2(x, r, k)])]

RECURSIVE Ancestors(_)
\* directory d and every directory above it
Ancestors(d) ==
    IF Dirname(d) = d \/ d = <<>> THEN {d}
    ELSE {d} \cup Ancestors(Dirname(d))

----------------------------------------------------------------------------
(* the run: initial state *)

Tasks == 1..Len(data_list)
Threads == 1..num_cpus

Terminal == {"Skipped", "Failed", "Succeeded"}

\* a Future
Fut(state, result, exc) == [state |-> state, result |-> result, exc |-> exc]

\* the filesystem holding content c[i] at the data_path of datetime l[i]
FilesOf(in_dir, l, c) ==
    LET P == {i \in DOMAIN l : c[i] # Missing}
    IN  [p \in {DataPath(in_dir, l[i]) : i \in P} |->
            c[CHOOSE i \in P : DataPath(in_dir, l[i]) = p]]

\* every file lies in a directory that exists
DirsOf(in_dir, l, c) ==
    {Slash} \cup UNION {Ancestors(Dirname(DataPath(in_dir, l[i]))) :
                        i \in {j \in DOMAIN l : c[j] # Missing}}

ProbesIdle == pathProbe = [phase |-> "off"] /\ enumProbe = [phase |-> "off"]

Init ==
    /\ input_dir = <<"/", "data">>
    /\ output_dir = <<"/", "out">>
    /\ num_cpus \in 1..MaxCpus
    /\ data_list = DataList(start_date, end_date, delta)
    /\ \E c \in {f \in [DOMAIN data_list -> UNION {Inputs(i) : i \in DOMAIN data_list}] :
                    \A i \in DOMAIN data_list : f[i] \in Inputs(i)} :
          /\ files = FilesOf(input_dir, data_list, c)
          /\ dirs = DirsOf(input_dir, data_list, c)
    /\ main_pc = "submit"
    /\ submitted = 0
    /\ queue = <<>>
    /\ thread = [w \in Threads |-> 0]
    /\ pc = [i \in Tasks |-> "Pending"]
    /\ data_path = [i \in Tasks |-> <<>>]
    /\ output_path = [i \in Tasks |-> <<>>]
    /\ data = [i \in Tasks |-> NoneV]
    /\ mid_line_data = [i \in Tasks |-> NoneV]
    /\ head_seen = [i \in Tasks |-> FALSE]
    /\ future = [i \in Tasks |-> Fut("PENDING", NoneV, "")]
    /\ received = [i \in Tasks |-> NotYet]
    /\ log = [i \in Tasks |-> <<>>]
    /\ steps = [i \in Tasks |-> <<>>]
    /\ writers = <<>>
    /\ ProbesIdle

----------------------------------------------------------------------------
(* sel_mid_line *)

fsVars == <<dirs, files, writers>>
pathVars == <<data_path, output_path>>
argVars == <<input_dir, output_dir, num_cpus, data_list>>
mainVars == <<main_pc, submitted, received>>
probeVars == <<pathProbe, enumProbe>>

\* a printed line
Line(src, kind, dt, detail) == [src |-> src, kind |-> kind, date |-> dt, detail |-> detail]

\* the thread that ran task i goes back to the queue
Release(i) == thread' = [w \in Threads |-> IF thread[w] = i THEN 0 ELSE thread[w]]

\* the variant of Handler whose catch-all raises again
Handler_reraise(exc) ==
    IF exc = "FileNotFoundError" THEN "skip" ELSE "raise"

\* the variant of Handler without the FileNotFoundError clause
Handler_noskip(exc) == "error"

\* which except clause of sel_mid_line takes an exception of class exc
Handler(exc) ==
    IF exc = "FileNotFoundError" THEN "skip" ELSE "error"

\* the variant of SkipReturn that tells the caller about the skip
SkipReturn_tagged == [t |-> "str", v |-> <<"skip">>]

\* what sel_mid_line returns after its FileNotFoundError clause (line 60)
SkipReturn == NoneV

\* the variant of Except that tries a missing file again instead of skipping
Except_retry(i, exc) ==
    IF Handler(exc) = "skip"
    THEN /\ UNCHANGED <<thread, log, future>>
         /\ pc' = [pc EXCEPT ![i] = "Loading"]
    ELSE /\ Release(i)
         /\ log' = [log EXCEPT ![i] = Append(@, Line("sel_mid_line", "error", data_list[i], exc))]
         /\ pc' = [pc EXCEPT ![i] = "Failed"]
         /\ future' = [future EXCEPT ![i] = Fut("FINISHED", NoneV, "")]

\* sel_mid_line leaves through an except clause, lines 55-60
Except(i, exc) ==
    LET h == Handler(exc)
    IN  /\ Release(i)
        /\ IF h = "skip"
           THEN /\ log' = [log EXCEPT ![i] = Append(@, Line("sel_mid_line", "skip", data_list[i], ""))]
                /\ pc' = [pc EXCEPT ![i] = "Skipped"]
                /\ future' = [future EXCEPT ![i] = Fut("FINISHED", SkipReturn, "")]
           ELSE IF h = "error"
           THEN /\ log' = [log EXCEPT ![i] = Append(@, Line("sel_mid_line", "error", data_list[i], exc))]
                /\ pc' = [pc EXCEPT ![i] = "Failed"]
                /\ future' = [future EXCEPT ![i] = Fut("FINISHED", NoneV, "")]
           ELSE /\ log' = log
                /\ pc' = [pc EXCEPT ![i] = "Failed"]
                /\ future' = [future EXCEPT ![i] = Fut("FINISHED", NoneV, exc)]

\* a pool thread takes the next work item and enters sel_mid_line: lines 40-42
Start(w) ==
    /\ thread[w] = 0
    /\ queue # <<>>
    /\ LET i == Head(queue)
       IN  /\ queue' = Tail(queue)
           /\ thread' = [thread EXCEPT ![w] = i]
           /\ future' = [future EXCEPT ![i] = Fut("RUNNING", NoneV, "")]
           /\ data_path' = [data_path EXCEPT ![i] = DataPath(input_dir, data_list[i])]
           /\ output_path' = [output_path EXCEPT ![i] = OutputPath(output_dir, data_list[i])]
           /\ pc' = [pc EXCEPT ![i] = "Loading"]
           /\ steps' = [steps EXCEPT ![i] = Append(@, "call")]
    /\ UNCHANGED <<argVars, fsVars, mainVars, probeVars, data, mid_line_data,
                   head_seen, log>>

\* data = torch.load(data_path), line 45
Load(i) ==
    /\ pc[i] = "Loading"
    /\ LET r == TorchLoad(files, data_path[i])
       IN  IF r.exc = ""
           THEN /\ data' = [data EXCEPT ![i] = r.value]
                /\ pc' = [pc EXCEPT ![i] = "Slicing"]
                /\ steps' = [steps EXCEPT ![i] = Append(@, "load")]
                /\ UNCHANGED <<future, log, thread>>
           ELSE /\ Except(i, r.exc)
                /\ UNCHANGED <<data, steps>>
    /\ UNCHANGED <<argVars, pathVars, fsVars, mainVars, probeVars, queue,
                   mid_line_data, head_seen>>

\* mid_line_data = data[:, 512], line 46
Slice(i) ==
    /\ pc[i] = "Slicing"
    /\ LET r == SelectColumn(data[i], MidIndex)
       IN  IF r.exc = ""
           THEN /\ mid_line_data' = [mid_line_data EXCEPT ![i] = r.value]
                /\ pc' = [pc EXCEPT ![i] = "WritingDirectory"]
                /\ steps' = [steps EXCEPT ![i] = Append(@, "slice")]
                /\ UNCHANGED <<future, log, thread>>
           ELSE /\ Except(i, r.exc)
                /\ UNCHANGED <<mid_line_data, steps>>
    /\ UNCHANGED <<argVars, pathVars, fsVars, mainVars, probeVars, queue,
                   data, head_seen>>

\* the variant of ExistOk that leaves os.makedirs at its default
ExistOk_default == FALSE

\* the exist_ok argument of os.makedirs, line 49
ExistOk == TRUE

\* os.makedirs(os.path.dirname(output_path), exist_ok=True), line 49, first
\* half: makedirs asks whether the parent of the directory exists
MakedirsCheck(i) ==
    /\ pc[i] = "WritingDirectory"
    /\ \E name \in {Dirname(output_path[i])} :
          head_seen' = [head_seen EXCEPT ![i] = Dirname(name) \in dirs]
    /\ pc' = [pc EXCEPT ![i] = "WritingDirectoryMkdir"]
    /\ UNCHANGED <<argVars, pathVars, fsVars, mainVars, probeVars, queue,
                   thread, data, mid_line_data, future, log, steps>>

\* line 49, second half: makedirs creates the missing parents, tolerating
\* those another thread created meanwhile, and calls mkdir on the directory
Mkdir(i) ==
    /\ pc[i] = "WritingDirectoryMkdir"
    /\ \E name \in {Dirname(output_path[i])} :
          \E withParents \in {IF head_seen[i] THEN dirs
                              ELSE dirs \cup Ancestors(Dirname(name))} :
             IF name \in withParents /\ ~ExistOk
             THEN /\ dirs' = withParents
                  /\ Except(i, "FileExistsError")
                  /\ UNCHANGED steps
             ELSE /\ dirs' = withParents \cup {name}
                  /\ pc' = [pc EXCEPT ![i] = "Writing"]
                  /\ steps' = [steps EXCEPT ![i] = Append(@, "makedirs")]
                  /\ UNCHANGED <<future, log, thread>>
    /\ UNCHANGED <<argVars, pathVars, files, writers, mainVars, probeVars,
                   queue, data, mid_line_data, head_seen>>

\* torch.save(mid_line_data, output_path), the print and the return:
\* lines 50-53
Save(i) ==
    /\ pc[i] = "Writing"
    /\ IF Dirname(output_path[i]) \notin dirs
       THEN /\ Except(i, "RuntimeError")
            /\ UNCHANGED <<files, writers, steps>>
       ELSE LET p == output_path[i]
            IN  /\ files' = (p :> mid_line_data[i]) @@ files
                /\ writers' = (p :> (IF p \in DOMAIN writers
                                     THEN Append(writers[p], i) ELSE <<i>>))
                                 @@ writers
                /\ steps' = [steps EXCEPT ![i] = Append(@, "save")]
                /\ log' = [log EXCEPT ![i] = Append(@, Line("sel_mid_line", "processed", data_list[i], ""))]
                /\ pc' = [pc EXCEPT ![i] = "Succeeded"]
                /\ future' = [future EXCEPT ![i] = Fut("FINISHED", StrV(output_path[i]), "")]
                /\ Release(i)
    /\ UNCHANGED <<argVars, pathVars, dirs, mainVars, probeVars, queue, data,
                   mid_line_data, head_seen>>

----------------------------------------------------------------------------
(* main *)

\* executor.submit(sel_mid_line, input_dir, output_dir, date) for the next
\* date of data_list, lines 82-84
Submit ==
    /\ main_pc = "submit"
    /\ submitted < Len(data_list)
    /\ submitted' = submitted + 1
    /\ queue' = Append(queue, submitted + 1)
    /\ main_pc' = IF submitted + 1 = Len(data_list) THEN "collect" ELSE "submit"
    /\ UNCHANGED <<argVars, pathVars, fsVars, probeVars, thread, pc, data,
                   mid_line_data, head_seen, future, received, log, steps>>

\* whether the class of an exception derives from Exception
IsException(exc) == exc \notin {"SystemExit", "KeyboardInterrupt", "GeneratorExit"}

\* the variant of PrintsSaved that prints for every result
PrintsSaved_always(result) == TRUE

\* if result: line 90
PrintsSaved(result) == Truthy(result)

\* one round of the as_completed loop, lines 86-93; leaving the with block
\* after the last future (every task has finished by then)
Collect(i) ==
    /\ main_pc = "collect"
    /\ future[i].state = "FINISHED"
    /\ received[i] = NotYet
    /\ LET last == \A j \in Tasks \ {i} : received[j] # NotYet
       IN  IF future[i].exc # ""
           THEN IF IsException(future[i].exc)
                THEN /\ log' = [log EXCEPT ![i] = Append(@, Line("main", "failed", data_list[i], future[i].exc))]
                     /\ received' = [received EXCEPT ![i] = [t |-> "raised"]]
                     /\ main_pc' = IF last THEN "done" ELSE "collect"
                ELSE /\ log' = log
                     /\ received' = [received EXCEPT ![i] = [t |-> "raised"]]
                     /\ main_pc' = "crashed"
           ELSE /\ received' = [received EXCEPT ![i] = future[i].result]
                /\ log' = IF PrintsSaved(future[i].result)
                          THEN [log EXCEPT ![i] = Append(@, Line("main", "saved", data_list[i], future[i].result))]
                          ELSE log
                /\ main_pc' = IF last THEN "done" ELSE "collect"
    /\ UNCHANGED <<argVars, pathVars, fsVars, probeVars, submitted, queue,
                   thread, pc, data, mid_line_data, head_seen, future, steps>>

RunNext ==
    \/ Submit
    \/ \E w \in Threads : Start(w)
    \/ \E i \in Tasks : Load(i)
    \/ \E i \in Tasks : Slice(i)
    \/ \E i \in Tasks : MakedirsCheck(i)
    \/ \E i \in Tasks : Mkdir(i)
    \/ \E i \in Tasks : Save(i)
    \/ \E i \in Tasks : Collect(i)

Next == RunNext

Spec == Init /\ [][Next]_vars

\* every pool thread that can take or continue a task eventually does, and
\* main's loop eventually handles a finished future
FairSpec == Spec /\ WF_vars(Next)

----------------------------------------------------------------------------
(* a single path construction *)

\* the run is not started
RunIdle ==
    /\ input_dir = <<>> /\ output_dir = <<>> /\ num_cpus = 1
    /\ data_list = <<>> /\ dirs = {Slash} /\ files = <<>>
    /\ main_pc = "off" /\ submitted = 0 /\ queue = <<>>
    /\ thread = <<0>> /\ pc = <<>> /\ data_path = <<>> /\ output_path = <<>>
    /\ data = <<>> /\ mid_line_data = <<>>
    /\ head_seen = <<>> /\ future = <<>> /\ received = <<>> /\ log = <<>>
    /\ steps = <<>> /\ writers = <<>>

\* directory arguments: absolute, with a trailing slash, empty, relative
PathRoots ==
    {<<"/", "data">>, <<"/", "out">>, <<"/", "out", "/">>, <<>>, <<"data">>}

\* datetimes: the first hours of the range, ends of months and years, a leap
\* day, the last hour of the program's range, one off the hour
PathTimes ==
    {start_date, start_date + 3600, Datetime(2012, 3, 4, 5, 0, 0),
     Datetime(2012, 2, 29, 23, 0, 0), Datetime(2012, 12, 31, 23, 0, 0),
     Datetime(2013, 1, 1, 0, 0, 0), Datetime(2024, 4, 30, 23, 0, 0),
     Datetime(2011, 3, 1, 0, 30, 15)}

PathInit ==
    /\ RunIdle
    /\ enumProbe = [phase |-> "off"]
    /\ \E a \in PathRoots, b \in PathRoots, dt \in PathTimes :
          pathProbe = [phase |-> "args", input_dir |-> a, output_dir |-> b,
                       date_time |-> dt, data_path |-> <<>>, output_path |-> <<>>]

\* lines 40-42 of sel_mid_line for the probe's arguments
PathConstruct ==
    /\ pathProbe.phase = "args"
    /\ pathProbe' = [pathProbe EXCEPT
                       !.phase = "paths",
                       !.data_path = DataPath(pathProbe.input_dir, pathProbe.date_time),
                       !.output_path = OutputPath(pathProbe.output_dir, pathProbe.date_time)]
    /\ UNCHANGED <<runVars, enumProbe>>

PathNext == PathConstruct

PathSpec == PathInit /\ [][PathNext]_vars

----------------------------------------------------------------------------
(* a single enumeration *)

\* start, end and step: every small triple, and three hours of the program's
\* range at the program's step
EnumArgs ==
    ((0..MaxT) \X (0..MaxT) \X (1..MaxDelta))
        \cup {<<start_date, start_date + 3 * 3600, delta>>}

EnumInit ==
    /\ RunIdle
    /\ pathProbe = [phase |-> "off"]
    /\ \E x \in EnumArgs :
          enumProbe = [phase |-> "args", start |-> x[1], end |-> x[2],
                       step |-> x[3], data_list |-> <<>>]

\* line 78 of main for the probe's start, end and step
Enumerate ==
    /\ enumProbe.phase = "args"
    /\ enumProbe' = [enumProbe EXCEPT
                       !.phase = "list",
                       !.data_list = DataList(enumProbe.start, enumProbe.end, enumProbe.step)]
    /\ UNCHANGED <<runVars, pathProbe>>

EnumNext == Enumerate

EnumSpec == EnumInit /\ [][EnumNext]_vars

----------------------------------------------------------------------------
(* Properties: paths *)

\* <root>/<YYYY>/<MM>/<DD>/hmi.M_720s.<YYYYMMDD>_<HHMMSS><suffix>, written out
TemplatePath(root, dt, suffix) ==
    LET f == Fields(dt)
        Y == Pad4(f.year)
        M == Pad2(f.month)
        D == Pad2(f.day)
    IN  Str(root) \o "/" \o Y \o "/" \o M \o "/" \o D \o "/hmi.M_720s."
          \o Y \o M \o D \o "_"
          \o Pad2(f.hour) \o Pad2(f.minute) \o Pad2(f.second)
          \o suffix

\* C1: for every datetime and every pair of roots, the path sel_mid_line
\* loads from is <input_root>/<YYYY>/<MM>/<DD>/hmi.M_720s.<date>_<time>_TAI.pt
\* and the path it saves to is <output_root>/.../hmi.M_720s.<date>_<time>_midline.pt;
\* for 2012-03-04T05:00:00 under /data and /out these are the two literal
\* paths of the specification
C1_PathsUnderRoots ==
    pathProbe.phase = "paths" =>
        /\ Str(pathProbe.data_path)
             = TemplatePath(pathProbe.input_dir, pathProbe.date_time, "_TAI.pt")
        /\ Str(pathProbe.output_path)
             = TemplatePath(pathProbe.output_dir, pathProbe.date_time, "_midline.pt")
        /\ (/\ pathProbe.date_time = Datetime(2012, 3, 4, 5, 0, 0)
            /\ Str(pathProbe.input_dir) = "/data"
            /\ Str(pathProbe.output_dir) = "/out")
           => /\ Str(pathProbe.data_path)
                   = "/data/2012/03/04/hmi.M_720s.20120304_050000_TAI.pt"
              /\ Str(pathProbe.output_path)
                   = "/out/2012/03/04/hmi.M_720s.20120304_050000_midline.pt"

----------------------------------------------------------------------------
(* Properties: enumeration *)

Range(l) == {l[i] : i \in DOMAIN l}

\* every start + k * step, k >= 0, that is strictly less than end
BelowEnd(start, end, step) ==
    LET K == IF end > start THEN (end - start) \div step + 1 ELSE 0
    IN  {x \in {start + k * step : k \in 0..K} : x < end}

\* C5 as stated: the list is start, start + step, ... and holds all such
\* datetimes below end, floor((end - start) / step) of them, start included
\* whenever start < end
C5_AllBelowEnd ==
    enumProbe.phase = "list" =>
        LET l == enumProbe.data_list
            a == enumProbe.start
            b == enumProbe.end
            d == enumProbe.step
        IN  /\ Len(l) = (b - a) \div d
            /\ \A i \in DOMAIN l : l[i] = a + (i - 1) * d
            /\ Range(l) = BelowEnd(a, b, d)
            /\ a < b => a \in Range(l)
            /\ b \notin Range(l)

\* C5, amended: the list is start + i * step for i = 0 .. n - 1 with
\* n = max(0, floor((end - start) / step)); every element is below end; start
\* is included whenever end - start >= step; when step divides end - start
\* and start <= end the list holds all such datetimes below end, and when it
\* does not and start < end exactly the last one, start + n * step, is left out
C5_FloorCount ==
    enumProbe.phase = "list" =>
        LET l == enumProbe.data_list
            a == enumProbe.start
            b == enumProbe.end
            d == enumProbe.step
            fl == (b - a) \div d
            n == IF fl > 0 THEN fl ELSE 0
        IN  /\ Len(l) = n
            /\ \A i \in DOMAIN l : l[i] = a + (i - 1) * d /\ l[i] < b
            /\ b - a >= d => l[1] = a
            /\ ((b - a) % d = 0 /\ a <= b) => Range(l) = BelowEnd(a, b, d)
            /\ ((b - a) % d # 0 /\ a < b)
                 => BelowEnd(a, b, d) \ Range(l) = {a + n * d}

\* three hours of the program's range were enumerated at the program's step
C5_ThreeHours ==
    /\ enumProbe.phase = "list"
    /\ enumProbe.start = Datetime(2010, 5, 1, 0, 0, 0)
    /\ enumProbe.end = Datetime(2010, 5, 1, 3, 0, 0)
    /\ enumProbe.step = 3600
    /\ enumProbe.data_list = <<Datetime(2010, 5, 1, 0, 0, 0),
                               Datetime(2010, 5, 1, 1, 0, 0),
                               Datetime(2010, 5, 1, 2, 0, 0)>>

----------------------------------------------------------------------------
(* Properties: the run *)

Started(i) == pc[i] # "Pending"

\* what lies at the data_path of a started task i (the run never writes there)
InputOf(i) == IF data_path[i] \in DOMAIN files THEN files[data_path[i]] ELSE Missing

\* a tensor whose second dimension holds index 512
Valid(x) == x.t = "tensor" /\ Len(x.shape) = 2 /\ x.shape[2] > 512

\* the outcome the input of a task calls for, whatever the other tasks do
Expected(x) ==
    IF x = Missing THEN "Skipped" ELSE IF Valid(x) THEN "Succeeded" ELSE "Failed"

Collected(i) == received[i] # NotYet

\* some action of the run can be taken: main can submit or collect, an idle
\* thread can take a work item, or a call of sel_mid_line can take its next step
CanStep ==
    \/ main_pc = "submit" /\ submitted < Len(data_list)
    \/ \E w \in Threads : thread[w] = 0 /\ queue # <<>>
    \/ \E i \in Tasks : pc[i] \notin Terminal \cup {"Pending"}
    \/ \E i \in Tasks : main_pc = "collect" /\ future[i].state = "FINISHED" /\ ~Collected(i)

\* C2: a task that fails stops no other task: no exception leaves
\* sel_mid_line or main's loop, every task ends in the outcome its own input
\* calls for, the run can always go on until main is done, and main is done
\* only when every task has ended and was collected (so the numbers of
\* successes and failures are those of the valid and the unusable inputs)
C2_Isolation ==
    /\ main_pc # "crashed"
    /\ \A i \in Tasks :
          /\ future[i].exc = ""
          /\ pc[i] \in Terminal => pc[i] = Expected(InputOf(i))
    /\ main_pc = "done" => \A i \in Tasks : pc[i] \in Terminal /\ Collected(i)
    /\ main_pc = "done" =>
          /\ Cardinality({i \in Tasks : pc[i] = "Succeeded"})
               = Cardinality({i \in Tasks : Valid(InputOf(i))})
          /\ Cardinality({i \in Tasks : pc[i] = "Failed"})
               = Cardinality({i \in Tasks : InputOf(i) # Missing /\ ~Valid(InputOf(i))})
    /\ main_pc # "done" => CanStep

\* the run is over; one input in the middle was corrupt and the task failed,
\* and all the others succeeded
C2_OneCorruptDone ==
    /\ main_pc = "done"
    /\ \E i \in Tasks :
          /\ 1 < i /\ i < Len(data_list)
          /\ InputOf(i) = Corrupt /\ pc[i] = "Failed"
          /\ \A j \in Tasks \ {i} : pc[j] = "Succeeded"

\* C3 (state): a task whose input is missing ends Skipped, not Failed,
\* returns None, prints the skip line and nothing else, takes no step after
\* the load, and there is no file at its output path
C3_SkipState ==
    \A i \in Tasks :
        (InputOf(i) = Missing /\ pc[i] \notin {"Pending", "Loading"}) =>
            /\ pc[i] = "Skipped"
            /\ future[i] = Fut("FINISHED", NoneV, "")
            /\ log[i] # <<>> /\ log[i][1].kind = "skip"
            /\ \A k \in DOMAIN log[i] : log[i][k].kind # "error"
            /\ steps[i] = <<"call">>
            /\ output_path[i] \notin DOMAIN files

\* C3 (step): the step in which a task is skipped creates no directory and
\* no file
C3_SkipStep ==
    \A i \in Tasks :
        (pc[i] # "Skipped" /\ pc'[i] = "Skipped") => (dirs' = dirs /\ files' = files)

\* C3: skip on missing input, in every state and every step
C3_Skip == []C3_SkipState /\ [][C3_SkipStep]_vars

\* a task with a missing input was skipped and main got None for it
C3_Skipped ==
    \E i \in Tasks :
        InputOf(i) = Missing /\ pc[i] = "Skipped" /\ received[i] = NoneV

\* C4 as stated: the values main's loop receives for two tasks of different
\* outcomes differ
C4_AllDistinguishable ==
    \A i, j \in Tasks :
        (Collected(i) /\ Collected(j) /\ pc[i] # pc[j]) => received[i] # received[j]

\* C4, amended: main's loop receives for every task exactly one value, the
\* output path (a non-empty str) for a success and None for a skip and for a
\* failure alike; a success differs from the other two, a skip does not
\* differ from a failure
C4_SuccessOrNone ==
    /\ \A i \in Tasks :
          Collected(i) =>
              /\ pc[i] \in Terminal
              /\ pc[i] = "Succeeded" =>
                    received[i] = StrV(output_path[i]) /\ Truthy(received[i])
              /\ pc[i] \in {"Skipped", "Failed"} => received[i] = NoneV
    /\ main_pc = "done" => \A i \in Tasks : Collected(i)

\* main has collected a success, a skip and a failure
C4_AllThree ==
    \E i, j, k \in Tasks :
        /\ Collected(i) /\ Collected(j) /\ Collected(k)
        /\ pc[i] = "Succeeded" /\ pc[j] = "Skipped" /\ pc[k] = "Failed"

\* the slice of x the specification asks for: element r is x[r][512]
Column512(x) == Tensor1(x.shape[1], [r \in 0..(x.shape[1] - 1) |-> At2(x, r, 512)])

\* C6: after a success the file at the output path holds exactly column 512
\* of the loaded tensor; a tensor whose second dimension does not hold index
\* 512 ends in a failure and no output file
C6_Slice ==
    \A i \in Tasks :
        /\ pc[i] = "Succeeded" =>
              /\ Valid(InputOf(i))
              /\ output_path[i] \in DOMAIN files
              /\ files[output_path[i]] = Column512(InputOf(i))
        /\ (InputOf(i).t = "tensor" /\ ~Valid(InputOf(i))
              /\ pc[i] \notin {"Pending", "Loading", "Slicing"}) =>
              /\ pc[i] = "Failed"
              /\ output_path[i] \notin DOMAIN files

\* one task has written its slice and another has failed on a tensor that
\* is 512 columns wide
C6_SlicedAndTooNarrow ==
    \E i, j \in Tasks :
        /\ pc[i] = "Succeeded" /\ files[output_path[i]] = Column512(InputOf(i))
        /\ InputOf(j).t = "tensor" /\ InputOf(j).shape[2] = 512 /\ pc[j] = "Failed"

C8_OneLine ==
    \A i \in Tasks : Collected(i) => Len(log[i]) = 1

\* C8, amended: a skip prints exactly one line, a failure exactly one line
\* carrying the cause, and a success exactly two: "Processed ... successfully"
\* from sel_mid_line, without the path, and then "Output saved to <path>"
\* from main's loop; no task prints nothing
C8_Lines ==
    \A i \in Tasks :
        /\ Collected(i) =>
              /\ pc[i] = "Skipped" =>
                    log[i] = <<Line("sel_mid_line", "skip", data_list[i], "")>>
              /\ pc[i] = "Failed" =>
                    /\ Len(log[i]) = 1
                    /\ log[i][1].src = "sel_mid_line" /\ log[i][1].kind = "error"
                    /\ log[i][1].date = data_list[i] /\ log[i][1].detail # ""
              /\ pc[i] = "Succeeded" =>
                    log[i] = <<Line("sel_mid_line", "processed", data_list[i], ""),
                               Line("main", "saved", data_list[i], StrV(output_path[i]))>>
        /\ (pc[i] \in Terminal /\ ~Collected(i)) => Len(log[i]) = 1

\* main has collected a success with its two lines, a skip and a failure
C8_AllThreeLogged ==
    \E i, j, k \in Tasks :
        /\ Collected(i) /\ Collected(j) /\ Collected(k)
        /\ pc[i] = "Succeeded" /\ Len(log[i]) = 2
        /\ pc[j] = "Skipped" /\ Len(log[j]) = 1
        /\ pc[k] = "Failed" /\ Len(log[k]) = 1

\* C9 (state): sel_mid_line is called at most once per task; a terminal task
\* was called exactly once; Succeeded comes only after load, slice,
\* ensure-directory and save, in that order
C9_Once ==
    \A i \in Tasks :
        /\ Cardinality({k \in DOMAIN steps[i] : steps[i][k] = "call"}) <= 1
        /\ pc[i] \in Terminal => (steps[i] # <<>> /\ steps[i][1] = "call")
        /\ pc[i] = "Succeeded" =>
              steps[i] = <<"call", "load", "slice", "makedirs", "save">>

\* C9 (step): a terminal state is final
C9_Final ==
    \A i \in Tasks : pc[i] \in Terminal => pc'[i] = pc[i]

\* C9: under fair scheduling every task reaches a terminal state, exactly
\* one, through one call, and stays there
C9_StateMachine ==
    /\ <>(\A i \in Tasks : pc[i] \in Terminal)
    /\ []C9_Once
    /\ [][C9_Final]_vars

\* every task has ended, one of them Succeeded and one Skipped
C9_AllTerminal ==
    /\ \A i \in Tasks : pc[i] \in Terminal
    /\ \E i, j \in Tasks : pc[i] = "Succeeded" /\ pc[j] = "Skipped"

\* C10: the output paths of the calls for distinct datetimes of the list
\* differ, so no two tasks write the same file, and no file is written twice
C10_NoContention ==
    /\ \A i, j \in Tasks :
          (i # j /\ Started(i) /\ Started(j)) => output_path[i] # output_path[j]
    /\ \A p \in DOMAIN writers : Len(writers[p]) = 1

\* two tasks have each written their own file while a third is about to
C10_ConcurrentWrites ==
    \E i, j, k \in Tasks :
        /\ i # j /\ pc[i] = "Succeeded" /\ pc[j] = "Writing" /\ pc[k] = "Writing"
        /\ j # k
        /\ writers[output_path[i]] = <<i>>

=============================================================================
